---- MODULE Spec2Model ----
(***************************************************************************)
(* Model of the build orchestrator of ketch (src/src/project/manager.rs)   *)
(* and of the project descriptor it consumes (src/src/project/project.rs). *)
(*                                                                         *)
(* A Rust String is a sequence of one-character strings, so that           *)
(* concatenation, slicing, replace and ends_with are computed as the code  *)
(* computes them.  A Vec is a sequence, an Option a sequence of length 0   *)
(* or 1, a Result<()> a record with an ok flag and, for Err, the format    *)
(* string of the message and its arguments.                                *)
(*                                                                         *)
(* Spec is a run of build_project.  The functions build_project relies on  *)
(* (the parser of config.rs, Project::from_config, the object path, the    *)
(* walk of read_dir) have specifications of their own, in which `input` is *)
(* the argument of the function and `output` what it gives.                *)
(***************************************************************************)
EXTENDS Naturals, Sequences, FiniteSets

VARIABLES pc, release, project, files, idx, objs, trace, result,
          input, output

vars == <<pc, release, project, files, idx, objs, trace, result,
          input, output>>

(***************************************************************************)
(* String literals of the source.                                          *)
(***************************************************************************)
S_build_sh == <<".", "/", "b", "u", "i", "l", "d", ".", "s", "h">>
S_sh == <<"s", "h">>
S_build_pl == <<".", "/", "b", "u", "i", "l", "d", ".", "p", "l">>
S_perl == <<"p", "e", "r", "l">>
S_build_py == <<".", "/", "b", "u", "i", "l", "d", ".", "p", "y">>
S_python3 == <<"p", "y", "t", "h", "o", "n", "3">>
S_O3 == <<"-", "O", "3">>
S_fpic == <<"-", "f", "p", "i", "c">>
S_std == <<"-", "s", "t", "d", "=">>
S_c == <<"-", "c">>
S_o == <<"-", "o">>
S_build_dir == <<".", "/", "b", "u", "i", "l", "d", "/">>
S_dot_c == <<".", "c">>
S_dot_o == <<".", "o">>
S_slash == <<"/">>
S_underscore == <<"_">>
S_ar == <<"a", "r">>
S_rcs == <<"r", "c", "s">>
S_lib == <<"l", "i", "b">>
S_dot_a == <<".", "a">>
S_dot_so == <<".", "s", "o">>
S_shared == <<"-", "s", "h", "a", "r", "e", "d">>
S_gnu == <<"g", "n", "u">>
S_cprefix == <<"c">>
S_23 == <<"2", "3">>
S_2x == <<"2", "x">>
S_comma == <<",">>
S_space == <<" ">>

(***************************************************************************)
(* Bounds of the model and the inputs drawn within them.                   *)
(***************************************************************************)
MaxFiles == 3
MaxFlags == 1

S_g == <<"-", "g">>
S_foo == <<"f", "o", "o">>
S_version == <<"0", ".", "1">>
F_a == <<".", "/", "s", "r", "c", "/", "a", ".", "c">>
F_b == <<".", "/", "s", "r", "c", "/", "b", ".", "c">>
F_db == <<".", "/", "s", "r", "c", "/", "d", "/", "b", ".", "c">>
F_h == <<".", "/", "s", "r", "c", "/", "n", ".", "h">>

\* Paths a walk of ./src/ may return, and flags a configuration may supply.
PathUniverse == {F_a, F_b, F_db, F_h}
FlagUniverse == {S_g, S_fpic}

SeqsUpTo(S, n) == UNION {[1..k -> S] : k \in 0..n}
NoDup(s) == \A a, b \in 1..Len(s) : a # b => s[a] # s[b]

\* The text of the operating system's error when a process cannot be spawned.
OsError == <<"E">>

(***************************************************************************)
(* String and vector functions of the standard library, as the code uses   *)
(* them.                                                                   *)
(***************************************************************************)
\* s[from..]
Skip(s, n) == SubSeq(s, n + 1, Len(s))

\* s.starts_with(p) at position k (1-based)
MatchAt(s, p, k) == /\ k + Len(p) - 1 <= Len(s)
                    /\ SubSeq(s, k, k + Len(p) - 1) = p

\* str::ends_with
EndsWith(s, p) == /\ Len(p) <= Len(s)
                  /\ SubSeq(s, Len(s) - Len(p) + 1, Len(s)) = p

\* str::replace: every non-overlapping match, left to right
RECURSIVE ReplaceFrom(_, _, _, _)
ReplaceFrom(s, from, to, k) ==
    IF k > Len(s) THEN <<>>
    ELSE IF MatchAt(s, from, k)
         THEN to \o ReplaceFrom(s, from, to, k + Len(from))
         ELSE <<s[k]>> \o ReplaceFrom(s, from, to, k + 1)

Replace(s, from, to) == ReplaceFrom(s, from, to, 1)

\* [String]::join(sep)
RECURSIVE Join(_, _)
Join(v, sep) ==
    IF Len(v) = 0 THEN <<>>
    ELSE IF Len(v) = 1 THEN v[1]
    ELSE v[1] \o sep \o Join(Tail(v), sep)

\* Iterator::filter(..).collect()
RECURSIVE Filter(_, _)
Filter(v, suffix) ==
    IF Len(v) = 0 THEN <<>>
    ELSE IF EndsWith(v[1], suffix)
         THEN <<v[1]>> \o Filter(Tail(v), suffix)
         ELSE Filter(Tail(v), suffix)

DigitChar(d) ==
    CASE d = 0 -> "0" [] d = 1 -> "1" [] d = 2 -> "2" [] d = 3 -> "3"
      [] d = 4 -> "4" [] d = 5 -> "5" [] d = 6 -> "6" [] d = 7 -> "7"
      [] d = 8 -> "8" [] d = 9 -> "9"

\* Display of a u8
RECURSIVE Decimal(_)
Decimal(n) ==
    IF n < 10 THEN <<DigitChar(n)>>
    ELSE Decimal(n \div 10) \o <<DigitChar(n % 10)>>

(***************************************************************************)
(* errors.rs: Result and the error! macro.                                 *)
(***************************************************************************)
Ok == [ok |-> TRUE, fmt |-> "", args |-> <<>>]
Err(f, a) == [ok |-> FALSE, fmt |-> f, args |-> a]

AbortError == Err("Aborting at first failed command.", <<>>)

\* The message quotes the command between grave accents, left out here.
SummonError(program, args) ==
    Err("Failed to summon command: {} {}: {}",
        <<program, Join(args, S_space), OsError>>)

\* What Command::status() gives: Err, or an exit status
ExitStatuses == {"zero", "nonzero", "spawn_error"}

\* ExitStatus::success
Success(status) == status = "zero"

(***************************************************************************)
(* project.rs: the project descriptor.                                     *)
(***************************************************************************)
ProjectType == {"Binary", "Shared", "Static"}
BuildScript == {"Before", "Repeat", "After", "None"}
Std == {89, 99, 11, 17, 23}

DEFAULT_COMPILER == <<"c", "c">>
DEFAULT_FLAGS ==
    << <<"-", "W", "a", "l", "l">>,
       <<"-", "W", "e", "x", "t", "r", "a">>,
       <<"-", "W", "w", "r", "i", "t", "e", "-", "s", "t", "r", "i", "n", "g", "s">>,
       <<"-", "W", "e", "r", "r", "o", "r", "=", "d", "i", "s", "c", "a", "r",
         "d", "e", "d", "-", "q", "u", "a", "l", "i", "f", "i", "e", "r", "s">> >>
DEFAULT_STANDARD == [std |-> 99, gnu_extensions |-> FALSE]

\* A rendering that keeps the year as written
StandardFmtMut(standard) ==
    (IF standard.gnu_extensions THEN S_gnu ELSE S_cprefix)
        \o Decimal(standard.std)

\* impl Display for Standard
StandardFmt(standard) ==
    Replace((IF standard.gnu_extensions THEN S_gnu ELSE S_cprefix)
                \o Decimal(standard.std),
            S_23, S_2x)

(***************************************************************************)
(* config.rs: ConfigValue and ConfigParser.  A char is a one-character     *)
(* string, or the name of a character that UTF-8 encodes on several bytes. *)
(* The fields `current` and `line` of the parser are threaded through the  *)
(* operators; a panic (Option::unwrap on None) is an outcome of its own.   *)
(***************************************************************************)
MaxTextLen == 5

\* A character outside ASCII: e with an acute accent, two bytes in UTF-8
E_ACUTE == "U+00E9"

\* char::len_utf8
LenUtf8(c) == IF c = E_ACUTE THEN 2 ELSE 1

\* String::len: the length in bytes
RECURSIVE ByteLen(_)
ByteLen(text) ==
    IF Len(text) = 0 THEN 0 ELSE LenUtf8(text[1]) + ByteLen(Tail(text))

\* enum ConfigValue (Array is met only as the boxed body of a Pair)
Ident(s) == [tag |-> "Ident", text |-> s, body |-> <<>>]
Pair(key, body) == [tag |-> "Pair", text |-> key, body |-> body]
ConfigNone == [tag |-> "None", text |-> <<>>, body |-> <<>>]

\* self.input.chars().nth(current)
Peek(text, current) ==
    IF current < Len(text) THEN <<text[current + 1]>> ELSE <<>>

\* self.current >= self.input.len()
IsAtEnd(text, current) == current >= ByteLen(text)

\* The characters that end an identifier
Terminating == {"\n", "\r", " ", "\t", ")"}

\* A push that keeps the None of skipped white space
PushValueMut(list, val) == Append(list, val)

\* if val != ConfigValue::None { .push(val) }
PushValue(list, val) == IF val # ConfigNone THEN Append(list, val) ELSE list

\* A line counter that a newline leaves as it is
NextLineMut(line) == line

\* '\n' => self.line += 1
NextLine(line) == line + 1

\* error!("line {}: Expected `)`, found EOF.", self.line); the grave
\* accents are left out
ExpectedParen(line) ==
    Err("line {}: Expected ), found EOF.", <<Decimal(line)>>)

Panicked == [kind |-> "panic", current |-> 0, line |-> 0, out |-> <<>>,
             val |-> ConfigNone, err |-> Ok]

\* parse_ident: the loop, with what it has pushed so far
RECURSIVE ParseIdentLoop(_, _, _)
ParseIdentLoop(text, current, out) ==
    IF IsAtEnd(text, current)
    THEN [kind |-> "ok", current |-> current, out |-> out]
    ELSE IF Peek(text, current) = <<>>
    THEN [kind |-> "panic", current |-> current, out |-> out]
    ELSE IF Peek(text, current)[1] \in Terminating
    THEN [kind |-> "ok", current |-> current, out |-> out]
    ELSE ParseIdentLoop(text, current + 1, Append(out, text[current + 1]))

ParseIdent(text, current) == ParseIdentLoop(text, current, <<>>)

RECURSIVE ParseOne(_, _, _)
RECURSIVE ParseBody(_, _, _, _, _)

\* The loop and the end of the `(` arm of parse_one
ParseBody(text, current, line, key, body) ==
    IF ~IsAtEnd(text, current) /\ Peek(text, current) # <<")">>
    THEN LET r == ParseOne(text, current, line) IN
         IF r.kind # "ok" THEN r
         ELSE ParseBody(text, r.current, r.line, key, PushValue(body, r.val))
    ELSE IF Peek(text, current) # <<")">>
    THEN [kind |-> "err", current |-> current, line |-> line, out |-> <<>>,
          val |-> ConfigNone, err |-> ExpectedParen(line)]
    ELSE [kind |-> "ok", current |-> current + 1, line |-> line,
          out |-> <<>>, val |-> Pair(key, body), err |-> Ok]

\* parse_one
ParseOne(text, current, line) ==
    IF Peek(text, current) = <<>> THEN Panicked
    ELSE LET c == text[current + 1]
             next == current + 1 IN
         IF c \in {" ", "\t", "\r"}
         THEN [kind |-> "ok", current |-> next, line |-> line, out |-> <<>>,
               val |-> ConfigNone, err |-> Ok]
         ELSE IF c = "\n"
         THEN [kind |-> "ok", current |-> next, line |-> NextLine(line),
               out |-> <<>>, val |-> ConfigNone, err |-> Ok]
         ELSE IF c = "("
         THEN LET key == ParseIdent(text, next) IN
              IF key.kind = "panic" THEN Panicked
              ELSE ParseBody(text, key.current, line, key.out, <<>>)
         ELSE LET s == ParseIdent(text, next) IN
              IF s.kind = "panic" THEN Panicked
              ELSE [kind |-> "ok", current |-> s.current, line |-> line,
                    out |-> <<>>, val |-> Ident(<<c>> \o s.out), err |-> Ok]

\* parse: the loop, with self.output so far
RECURSIVE ParseLoop(_, _, _, _)
ParseLoop(text, current, line, out) ==
    IF IsAtEnd(text, current)
    THEN [kind |-> "ok", current |-> current, line |-> line, out |-> out,
          val |-> ConfigNone, err |-> Ok]
    ELSE LET r == ParseOne(text, current, line) IN
         IF r.kind # "ok" THEN r
         ELSE ParseLoop(text, r.current, r.line, PushValue(out, r.val))

\* ConfigParser::new(s).parse()
ParseString(text) == ParseLoop(text, 0, 1, <<>>)

(***************************************************************************)
(* config.rs: find_val; project.rs: Project::from_config and get_first.    *)
(* The value boxed in a Pair is always an Array, so Some(Array(av)) is the *)
(* sequence of one element <<av>> and None the empty sequence.  The grave   *)
(* accents of the messages are left out.                                   *)
(***************************************************************************)
MaxVals == 3

K_name == <<"n", "a", "m", "e">>
K_version == <<"v", "e", "r", "s", "i", "o", "n">>
K_standard == <<"s", "t", "a", "n", "d", "a", "r", "d">>
K_cc == <<"c", "c">>
K_flags == <<"f", "l", "a", "g", "s">>
K_type == <<"t", "y", "p", "e">>
S_ansi == <<"a", "n", "s", "i">>
S_binary == <<"b", "i", "n", "a", "r", "y">>
S_shared_type == <<"s", "h", "a", "r", "e", "d">>
S_static == <<"s", "t", "a", "t", "i", "c">>
S_comma_c == <<",", " ", "c">>
S_comma_gnu == <<",", " ", "g", "n", "u">>

\* A lookup that keeps the last match
RECURSIVE FindValMut(_, _)
FindValMut(values, key) ==
    IF Len(values) = 0 THEN <<>>
    ELSE IF /\ values[Len(values)].tag = "Pair"
            /\ values[Len(values)].text = key
         THEN <<values[Len(values)].body>>
         ELSE FindValMut(SubSeq(values, 1, Len(values) - 1), key)

\* find_val
RECURSIVE FindVal(_, _)
FindVal(values, key) ==
    IF Len(values) = 0 THEN <<>>
    ELSE IF values[1].tag = "Pair" /\ values[1].text = key
         THEN <<values[1].body>>
         ELSE FindVal(Tail(values), key)

\* A Result<T>: Ok(value) or Err(err)
OkVal(v) == [ok |-> TRUE, value |-> v, err |-> Ok]
ErrVal(e) == [ok |-> FALSE, value |-> <<>>, err |-> e]

SingleString(k) == Err("Key {} must be a single string.", <<k>>)

\* A get_first that takes the first element of any body that has one
GetFirstMut(av, k) ==
    IF Len(av) >= 1 /\ av[1].tag = "Ident" THEN OkVal(av[1].text)
    ELSE ErrVal(SingleString(k))

\* get_first
GetFirst(av, k) ==
    IF Len(av) = 1
    THEN IF av[1].tag = "Ident" THEN OkVal(av[1].text)
         ELSE ErrVal(SingleString(k))
    ELSE ErrVal(SingleString(k))

\* A required key: name, version
RequiredString(vals, k) ==
    IF FindVal(vals, k) # <<>> THEN GetFirst(FindVal(vals, k)[1], k)
    ELSE ErrVal(SingleString(k))

\* standards, in the order of the slice
STANDARDS == <<89, 99, 11, 17, 23>>

\* The list of the valid standards in the error message
RECURSIVE FoldStandards(_, _)
FoldStandards(k, acc) ==
    IF k > Len(STANDARDS) THEN acc
    ELSE FoldStandards(k + 1,
                       acc \o S_comma_c \o Decimal(STANDARDS[k])
                           \o S_comma_gnu \o Decimal(STANDARDS[k]))

InvalidStandard(raw) ==
    Err("{} is not a valid C standard. Valid standards are: {}",
        <<raw, FoldStandards(1, S_ansi)>>)

\* let standard = match find_val(&vals, "standard")
ParseStandard(vals) ==
    LET found == FindVal(vals, K_standard) IN
    IF found = <<>> THEN OkVal(DEFAULT_STANDARD)
    ELSE LET raw == GetFirst(found[1], K_standard) IN
         IF ~raw.ok THEN raw
         ELSE IF raw.value = S_ansi
         THEN OkVal([std |-> 89, gnu_extensions |-> FALSE])
         ELSE LET prefix == IF MatchAt(raw.value, S_gnu, 1)
                            THEN S_gnu ELSE S_cprefix
                  matching == SelectSeq(STANDARDS,
                                LAMBDA std : prefix \o Decimal(std) = raw.value)
              IN IF matching = <<>> THEN ErrVal(InvalidStandard(raw.value))
                 ELSE OkVal([std |-> matching[1],
                             gnu_extensions |-> prefix = S_gnu])

\* let compiler = match find_val(&vals, "cc")
ParseCompiler(vals) ==
    IF FindVal(vals, K_cc) = <<>> THEN OkVal(DEFAULT_COMPILER)
    ELSE GetFirst(FindVal(vals, K_cc)[1], K_cc)

\* A flags key whose elements are added to the defaults
ParseFlagsMut(vals) ==
    LET found == FindVal(vals, K_flags) IN
    IF found = <<>> THEN OkVal(DEFAULT_FLAGS)
    ELSE IF \A k \in 1..Len(found[1]) : found[1][k].tag = "Ident"
         THEN OkVal(DEFAULT_FLAGS \o [k \in 1..Len(found[1]) |-> found[1][k].text])
         ELSE ErrVal(Err("Each flag must be an identifier.", <<>>))

\* let flags = match find_val(&vals, "flags")
ParseFlags(vals) ==
    LET found == FindVal(vals, K_flags) IN
    IF found = <<>> THEN OkVal(DEFAULT_FLAGS)
    ELSE IF \A k \in 1..Len(found[1]) : found[1][k].tag = "Ident"
         THEN OkVal([k \in 1..Len(found[1]) |-> found[1][k].text])
         ELSE ErrVal(Err("Each flag must be an identifier.", <<>>))

\* let ptype = match find_val(&vals, "type")
ParsePtype(vals) ==
    LET found == FindVal(vals, K_type) IN
    IF found = <<>> THEN OkVal("Binary")
    ELSE LET x == GetFirst(found[1], K_type) IN
         IF ~x.ok THEN x
         ELSE IF x.value = S_binary THEN OkVal("Binary")
         ELSE IF x.value = S_shared_type THEN OkVal("Shared")
         ELSE IF x.value = S_static THEN OkVal("Static")
         ELSE ErrVal(Err("{} is not a valid project type. Available project types: binary, shared, static.",
                         <<x.value>>))

\* Project::from_config: the keys in the order of the code, each `?`
\* returning the first error
FromConfig(vals) ==
    LET name == RequiredString(vals, K_name)
        version == RequiredString(vals, K_version)
        standard == ParseStandard(vals)
        compiler == ParseCompiler(vals)
        flags == ParseFlags(vals)
        ptype == ParsePtype(vals)
    IN IF ~name.ok THEN [ret |-> name.err, project |-> <<>>]
       ELSE IF ~version.ok THEN [ret |-> version.err, project |-> <<>>]
       ELSE IF ~standard.ok THEN [ret |-> standard.err, project |-> <<>>]
       ELSE IF ~compiler.ok THEN [ret |-> compiler.err, project |-> <<>>]
       ELSE IF ~flags.ok THEN [ret |-> flags.err, project |-> <<>>]
       ELSE IF ~ptype.ok THEN [ret |-> ptype.err, project |-> <<>>]
       ELSE [ret |-> Ok,
             project |-> <<[name |-> name.value,
                            version |-> version.value,
                            standard |-> standard.value,
                            compiler |-> compiler.value,
                            flags |-> flags.value,
                            ptype |-> ptype.value]>>]

(***************************************************************************)
(* The build-script timing.  manager.rs reads project.build_script, but    *)
(* the project.rs at hand neither declares the field nor reads a key for   *)
(* it; the reading of the key is taken from the specification (key         *)
(* buildscript, tokens before, repeat, after), after the pattern of the    *)
(* type key.                                                               *)
(***************************************************************************)
K_buildscript == <<"b", "u", "i", "l", "d", "s", "c", "r", "i", "p", "t">>
S_before == <<"b", "e", "f", "o", "r", "e">>
S_repeat == <<"r", "e", "p", "e", "a", "t">>
S_after == <<"a", "f", "t", "e", "r">>

\* A reading of the key that takes an unknown token for no timing
ParseBuildScriptMut(vals) ==
    LET found == FindVal(vals, K_buildscript) IN
    IF found = <<>> THEN OkVal("None")
    ELSE LET x == GetFirst(found[1], K_buildscript) IN
         IF ~x.ok THEN x
         ELSE IF x.value = S_before THEN OkVal("Before")
         ELSE IF x.value = S_repeat THEN OkVal("Repeat")
         ELSE IF x.value = S_after THEN OkVal("After")
         ELSE OkVal("None")

\* The timing key: optional, None by default, else one of the three tokens
ParseBuildScript(vals) ==
    LET found == FindVal(vals, K_buildscript) IN
    IF found = <<>> THEN OkVal("None")
    ELSE LET x == GetFirst(found[1], K_buildscript) IN
         IF ~x.ok THEN x
         ELSE IF x.value = S_before THEN OkVal("Before")
         ELSE IF x.value = S_repeat THEN OkVal("Repeat")
         ELSE IF x.value = S_after THEN OkVal("After")
         ELSE ErrVal(Err("{} is not a valid build script timing. Available timings: before, repeat, after.",
                         <<x.value>>))

\* Project::from_config with the build_script field of the descriptor that
\* build_project reads
FromConfigWithScript(vals) ==
    LET base == FromConfig(vals)
        timing == ParseBuildScript(vals)
    IN IF base.ret # Ok THEN base
       ELSE IF ~timing.ok THEN [ret |-> timing.err, project |-> <<>>]
       ELSE [ret |-> Ok,
             project |-> <<[name |-> base.project[1].name,
                            version |-> base.project[1].version,
                            standard |-> base.project[1].standard,
                            compiler |-> base.project[1].compiler,
                            flags |-> base.project[1].flags,
                            ptype |-> base.project[1].ptype,
                            build_script |-> timing.value]>>]

(***************************************************************************)
(* manager.rs: Project::from_config(parse_file("./ketchfile")?)? as        *)
(* build_project calls it: the file is read, parsed and validated, and any *)
(* of the three can fail; the parser can also panic.                       *)
(***************************************************************************)
ConfigFileError ==
    Err("Failed to read file: {}: {}.",
        << <<".", "/", "k", "e", "t", "c", "h", "f", "i", "l", "e">>, OsError >>)

\* What stands for the value of a call that panicked: nothing is returned
PanicValue == [ok |-> FALSE, fmt |-> "(panic)", args |-> <<>>]

\* ConfigParser::new(text).parse() and then Project::from_config
LoadKetchfile(text) ==
    LET r == ParseString(text) IN
    IF r.kind = "panic"
    THEN [panic |-> TRUE, ret |-> PanicValue, project |-> <<>>]
    ELSE IF r.kind = "err"
    THEN [panic |-> FALSE, ret |-> r.err, project |-> <<>>]
    ELSE [panic |-> FALSE,
          ret |-> FromConfigWithScript(r.out).ret,
          project |-> FromConfigWithScript(r.out).project]

\* One form of a ketchfile on a line of its own
FormLine(key, elems) ==
    <<"(">> \o Join(<<key>> \o elems, S_space) \o <<")", "\n">>

RequiredLines ==
    FormLine(K_name, <<S_foo>>) \o FormLine(K_version, <<S_version>>)

StandardLines == {<<>>, FormLine(K_standard, <<S_gnu \o S_23>>)}
FlagLines ==
    {<<>>} \cup {FormLine(K_flags, f) : f \in SeqsUpTo(FlagUniverse, MaxFlags)}
TypeLines ==
    {<<>>, FormLine(K_type, <<S_shared_type>>), FormLine(K_type, <<S_static>>)}
TimingLines ==
    {<<>>, FormLine(K_buildscript, <<S_before>>),
     FormLine(K_buildscript, <<S_repeat>>), FormLine(K_buildscript, <<S_after>>)}

\* The ketchfiles that from_config or the parser rejects, one for each
\* error of the two: a required key absent or not a single string, an
\* optional key not a single string, an unknown standard, type or timing, a
\* flag that is a form, a form left open on the first or on a later line
BadKetchfiles ==
    {<<>>,
     FormLine(K_version, <<S_version>>),
     FormLine(K_name, <<S_foo, S_foo>>) \o FormLine(K_version, <<S_version>>),
     FormLine(K_name, <<S_foo>>),
     FormLine(K_name, <<S_foo>>) \o FormLine(K_version, <<>>),
     RequiredLines \o FormLine(K_standard, << <<"c", "1", "8">> >>),
     RequiredLines \o FormLine(K_standard, <<>>),
     RequiredLines \o FormLine(K_cc, << <<"a">>, <<"b">> >>),
     RequiredLines \o FormLine(K_flags, << <<"(", "x", ")">> >>),
     RequiredLines \o FormLine(K_type, <<>>),
     RequiredLines \o FormLine(K_type, << <<"b", "o", "g", "u", "s">> >>),
     RequiredLines \o FormLine(K_buildscript, <<>>),
     RequiredLines \o FormLine(K_buildscript, << <<"b", "o", "g", "u", "s">> >>),
     <<"(">> \o K_name \o S_space \o S_foo,
     RequiredLines \o <<"(">> \o K_cc \o S_space \o <<"g", "c", "c">>}

\* The ketchfiles of the builds: the well-formed ones, with or without each
\* optional key, the rejected ones, and one with a character outside ASCII
\* after the forms
Ketchfiles ==
    {RequiredLines \o s \o f \o t \o b :
        s \in StandardLines, f \in FlagLines, t \in TypeLines,
        b \in TimingLines}
      \cup {RequiredLines \o FormLine(K_cc, << <<"g", "c", "c">> >>),
            RequiredLines \o FormLine(K_standard, <<S_ansi>>)}
      \cup BadKetchfiles
      \cup {RequiredLines \o <<E_ACUTE, "\n">>}

\* Project::from_config(parse_file("./ketchfile")?): the error of the read,
\* or what the parser and from_config make of the text read
ConfigOutcomes ==
    {[panic |-> FALSE, ret |-> ConfigFileError, project |-> <<>>]}
        \cup {LoadKetchfile(text) : text \in Ketchfiles}


(***************************************************************************)
(* manager.rs: run_build_script.                                           *)
(***************************************************************************)
POSSIBLE_SCRIPTS ==
    << <<S_build_sh, S_sh>>, <<S_build_pl, S_perl>>, <<S_build_py, S_python3>> >>

ScriptPaths == {POSSIBLE_SCRIPTS[k][1] : k \in 1..Len(POSSIBLE_SCRIPTS)}

\* The loop over POSSIBLE_SCRIPTS: build_script is assigned at every
\* candidate that exists, and the loop has no break.
RECURSIVE ScanScripts(_, _, _)
ScanScripts(exists, k, build_script) ==
    IF k > Len(POSSIBLE_SCRIPTS) THEN build_script
    ELSE ScanScripts(exists, k + 1,
                     IF POSSIBLE_SCRIPTS[k][1] \in exists
                     THEN <<POSSIBLE_SCRIPTS[k]>>
                     ELSE build_script)

\* build_script after the loop: None, or Some((script, interpreter))
FindBuildScript(exists) == ScanScripts(exists, 1, <<>>)

\* if let Some((interpreter, script)) = build_script: the pattern binds the
\* first component of the tuple to `interpreter` and the second to `script`.
BoundInterpreter(build_script) == build_script[1][1]
BoundScript(build_script) == build_script[1][2]

\* A fold that keeps only the candidate it visits last
FoldScriptsMut(k, acc) == POSSIBLE_SCRIPTS[Len(POSSIBLE_SCRIPTS)][1]

\* The fold that lists the candidates in the error message
RECURSIVE FoldScripts(_, _)
FoldScripts(k, acc) ==
    IF k > Len(POSSIBLE_SCRIPTS) THEN acc
    ELSE FoldScripts(k + 1,
                     IF acc = <<>> THEN POSSIBLE_SCRIPTS[k][1]
                     ELSE acc \o S_comma \o POSSIBLE_SCRIPTS[k][1])

NoScriptError ==
    Err("No buildscript found. Possible build scripts: {}.",
        <<FoldScripts(1, <<>>)>>)

\* The result of a command: the ? on status(), then the test of success()
CommandResult(program, args, status) ==
    IF status = "spawn_error" THEN SummonError(program, args)
    ELSE IF ~Success(status) THEN AbortError
    ELSE Ok

\* run_build_script, given the candidate files that exist and what the
\* command does if one is launched: the command issued and the value returned.
RunBuildScript(exists, status) ==
    LET build_script == FindBuildScript(exists) IN
    IF build_script # <<>>
    THEN LET interpreter == BoundInterpreter(build_script)
             script == BoundScript(build_script) IN
         [kind |-> "hook", spawned |-> TRUE, program |-> interpreter,
          args |-> <<script>>, status |-> status, exists |-> exists,
          selected |-> build_script,
          ret |-> CommandResult(interpreter, <<script>>, status)]
    ELSE [kind |-> "hook", spawned |-> FALSE, program |-> <<>>,
          args |-> <<>>, status |-> "none", exists |-> exists,
          selected |-> build_script,
          ret |-> NoScriptError]

(***************************************************************************)
(* manager.rs: read_dir and build_project.                                 *)
(***************************************************************************)
\* fs::read_dir(dir) failed
ReadDirError(dir) == Err("Failed to read directory: {}: {}.", <<dir, OsError>>)

\* An entry of the enumeration of dir is an error
DirEntryError(dir) ==
    Err("Failed to get directory entry: {}: {}.", <<dir, OsError>>)

\* The directories read_dir is called on: the root as build_project names
\* it, a directory below it as entry.path() names it
WalkedDirs ==
    {<<".", "/", "s", "r", "c", "/">>, <<".", "/", "s", "r", "c", "/", "d">>}

\* read_dir("./src/"): an error of the walk of the root or of a directory
\* below it, or the paths of the files under ./src/ in the order the file
\* system enumerates them.
ReadDirOutcomes ==
    {[ret |-> ReadDirError(dir), content |-> <<>>] : dir \in WalkedDirs}
        \cup {[ret |-> DirEntryError(dir), content |-> <<>>] : dir \in WalkedDirs}
        \cup {[ret |-> Ok, content |-> c] :
                c \in {l \in SeqsUpTo(PathUniverse, MaxFiles) : NoDup(l)}}

\* file[6..]: the length of the `./src/` prefix
SrcPrefixLen == 6

\* The object file of a source file
ObjectPath(file) ==
    S_build_dir
        \o Replace(Replace(Skip(file, SrcPrefixLen), S_slash, S_underscore),
                   S_dot_c, S_dot_o)

\* A test that takes every library for a shared one
IsSharedMut(ptype) == ptype # "Binary"

\* if let ProjectType::Shared = project.ptype
IsShared(ptype) == ptype = "Shared"

\* Arguments with the dialect ahead of -fpic
CompileFlagsMut(p, file) ==
    LET flags1 == Append(p.flags, S_std \o StandardFmt(p.standard))
        flags2 == IF IsShared(p.ptype) THEN Append(flags1, S_fpic) ELSE flags1
        flags3 == flags2 \o <<S_c, file, S_o>>
    IN Append(flags3, ObjectPath(file))

\* The arguments of the compiler for one source file
CompileFlags(p, file) ==
    LET flags0 == p.flags
        flags1 == IF IsShared(p.ptype) THEN Append(flags0, S_fpic) ELSE flags0
        flags2 == Append(flags1, S_std \o StandardFmt(p.standard))
        flags3 == flags2 \o <<S_c, file, S_o>>
    IN Append(flags3, ObjectPath(file))

\* The program of the link step
LinkProgram(p) == IF p.ptype = "Static" THEN S_ar ELSE p.compiler

\* A link step that archives without the `rcs` operation and links a shared
\* library as a binary
LinkArgsMut(p, objects) ==
    CASE p.ptype = "Binary" -> objects \o <<S_o, p.name>>
      [] p.ptype = "Static" -> Append(objects, S_lib \o p.name \o S_dot_a)
      [] p.ptype = "Shared" -> objects \o <<S_o, S_lib \o p.name \o S_dot_so>>

\* The arguments of the link step
LinkArgs(p, objects) ==
    CASE p.ptype = "Binary" -> objects \o <<S_o, p.name>>
      [] p.ptype = "Static" ->
            Append(<<S_rcs>> \o objects, S_lib \o p.name \o S_dot_a)
      [] p.ptype = "Shared" ->
            objects \o <<S_shared, S_o, S_lib \o p.name \o S_dot_so>>

\* Tests of project.build_script that never match
IsBeforeMut(build_script) == FALSE
IsRepeatMut(build_script) == FALSE
IsAfterMut(build_script) == FALSE

\* The tests of project.build_script
IsBefore(build_script) == build_script = "Before"
IsRepeat(build_script) == build_script = "Repeat"
IsAfter(build_script) == build_script = "After"

\* Exit statuses that are never looked at
CompileFailedMut(status) == FALSE
LinkFailedMut(status) == FALSE

\* if !status.success() { return error!(..) } after a compile and after the link
CompileFailed(status) == ~Success(status)
LinkFailed(status) == ~Success(status)

\* A command issued by build_project itself
Invocation(kind, program, args, status) ==
    [kind |-> kind, spawned |-> TRUE, program |-> program, args |-> args,
     status |-> status, exists |-> {}, selected |-> <<>>,
     ret |-> CommandResult(program, args, status)]

\* A step of build_project that issues no command
Step(kind, ret) ==
    [kind |-> kind, spawned |-> FALSE, program |-> <<>>, args |-> <<>>,
     status |-> "none", exists |-> {}, selected |-> <<>>, ret |-> ret]

NoResult == [ok |-> FALSE, fmt |-> "(running)", args |-> <<>>]

Init ==
    /\ pc = "start"
    /\ release = FALSE
    /\ project = <<>>
    /\ files = <<>>
    /\ idx = 1
    /\ objs = <<>>
    /\ trace = <<>>
    /\ result = NoResult
    /\ input = <<>>
    /\ output = <<>>

\* build_project(release) up to the test of BuildScript::Before
LoadConfig ==
    /\ pc = "start"
    /\ \E r \in BOOLEAN, cfg \in ConfigOutcomes :
        /\ release' = r
        /\ IF cfg.panic
           THEN /\ project' = <<>>
                /\ result' = result
                /\ pc' = "panicked"
           ELSE IF ~cfg.ret.ok
           THEN /\ project' = <<>>
                /\ result' = cfg.ret
                /\ pc' = "done"
           ELSE /\ project' = IF r
                              THEN <<[cfg.project[1] EXCEPT
                                        !.flags = Append(@, S_O3)]>>
                              ELSE cfg.project
                /\ result' = result
                /\ pc' = IF IsBefore(cfg.project[1].build_script)
                         THEN "before" ELSE "discover"
        /\ trace' = IF cfg.panic THEN trace
                     ELSE Append(trace, Step("config", cfg.ret))
    /\ UNCHANGED <<files, idx, objs, input, output>>

\* return run_build_script()
HookBefore ==
    /\ pc = "before"
    /\ \E exists \in SUBSET ScriptPaths, status \in ExitStatuses :
        LET h == RunBuildScript(exists, status) IN
        /\ trace' = Append(trace, h)
        /\ result' = h.ret
        /\ pc' = "done"
    /\ UNCHANGED <<release, project, files, idx, objs, input, output>>

\* A loop that ends the build when there is nothing to compile
LoopEntryMut(found) == IF Len(found) = 0 THEN "done" ELSE "compile"

\* for file in files: with no file the body never runs and the link is next
LoopEntry(found) == IF Len(found) = 0 THEN "link" ELSE "compile"

\* read_dir("./src/")? filtered on the `.c` suffix
Discover ==
    /\ pc = "discover"
    /\ \E rd \in ReadDirOutcomes :
        /\ trace' = Append(trace, Step("discover", rd.ret))
        /\ IF ~rd.ret.ok
           THEN /\ result' = rd.ret
                /\ pc' = "done"
                /\ UNCHANGED <<files, idx, objs>>
           ELSE /\ files' = Filter(rd.content, S_dot_c)
                /\ objs' = <<>>
                /\ idx' = 1
                /\ result' = result
                /\ pc' = LoopEntry(files')
    /\ UNCHANGED <<release, project, input, output>>

\* One iteration of `for file in files`, up to the test of BuildScript::Repeat
Compile ==
    /\ pc = "compile"
    /\ \E status \in ExitStatuses :
        LET p == project[1]
            file == files[idx]
            flags == CompileFlags(p, file)
            c == Invocation("compile", p.compiler, flags, status) IN
        /\ objs' = Append(objs, ObjectPath(file))
        /\ trace' = Append(trace, c)
        /\ IF status = "spawn_error"
           THEN /\ result' = c.ret
                /\ pc' = "done"
                /\ idx' = idx
           ELSE IF CompileFailed(status)
           THEN /\ result' = AbortError
                /\ pc' = "done"
                /\ idx' = idx
           ELSE IF IsRepeat(p.build_script)
           THEN /\ result' = result
                /\ pc' = "repeat"
                /\ idx' = idx
           ELSE /\ result' = result
                /\ pc' = IF idx = Len(files) THEN "link" ELSE "compile"
                /\ idx' = idx + 1
    /\ UNCHANGED <<release, project, files, input, output>>

\* run_build_script()? at the end of an iteration
HookRepeat ==
    /\ pc = "repeat"
    /\ \E exists \in SUBSET ScriptPaths, status \in ExitStatuses :
        LET h == RunBuildScript(exists, status) IN
        /\ trace' = Append(trace, h)
        /\ IF ~h.ret.ok
           THEN /\ result' = h.ret
                /\ pc' = "done"
                /\ idx' = idx
           ELSE /\ result' = result
                /\ pc' = IF idx = Len(files) THEN "link" ELSE "compile"
                /\ idx' = idx + 1
    /\ UNCHANGED <<release, project, files, objs, input, output>>

\* The link step, up to the test of BuildScript::After
Link ==
    /\ pc = "link"
    /\ \E status \in ExitStatuses :
        LET p == project[1]
            program == LinkProgram(p)
            args == LinkArgs(p, objs)
            l == Invocation("link", program, args, status) IN
        /\ trace' = Append(trace, l)
        /\ IF status = "spawn_error"
           THEN /\ result' = l.ret
                /\ pc' = "done"
           ELSE IF LinkFailed(status)
           THEN /\ result' = AbortError
                /\ pc' = "done"
           ELSE IF IsAfter(p.build_script)
           THEN /\ result' = result
                /\ pc' = "after"
           ELSE /\ result' = Ok
                /\ pc' = "done"
    /\ UNCHANGED <<release, project, files, idx, objs, input, output>>

\* run_build_script() as the value of build_project
HookAfter ==
    /\ pc = "after"
    /\ \E exists \in SUBSET ScriptPaths, status \in ExitStatuses :
        LET h == RunBuildScript(exists, status) IN
        /\ trace' = Append(trace, h)
        /\ result' = h.ret
        /\ pc' = "done"
    /\ UNCHANGED <<release, project, files, idx, objs, input, output>>

Next ==
    \/ LoadConfig
    \/ HookBefore
    \/ Discover
    \/ Compile
    \/ HookRepeat
    \/ Link
    \/ HookAfter

Spec == Init /\ [][Next]_vars

(***************************************************************************)
(* The properties of the build orchestrator.                               *)
(***************************************************************************)
\* p occurs in s
Contains(s, p) == \E k \in 1..Len(s) : MatchAt(s, p, k)

\* How many elements of v equal x
RECURSIVE Count(_, _)
Count(v, x) ==
    IF Len(v) = 0 THEN 0
    ELSE (IF v[1] = x THEN 1 ELSE 0) + Count(Tail(v), x)

Steps == DOMAIN trace
Loaded == project # <<>>
Timing == project[1].build_script
OfKind(kind) == {k \in Steps : trace[k].kind = kind}
ExitedZero(k) == trace[k].spawned /\ trace[k].status = "zero"
Last(v) == v[Len(v)]
CompileEntries == SelectSeq(trace, LAMBDA e : e.kind = "compile")

\* C1: a compile invocation that exits non-zero is the last thing
\* build_project does: no compile, hook or link follows it, no link was
\* issued before it, and the build returns an error.
C1_FailFast ==
    \A k \in OfKind("compile") :
        trace[k].status = "nonzero" =>
            /\ k = Len(trace)
            /\ OfKind("link") = {}
            /\ pc = "done"
            /\ ~result.ok

\* The second of three source files failed to compile.
C1_Witness ==
    /\ Len(files) = 3
    /\ Len(CompileEntries) = 2
    /\ Last(trace).kind = "compile"
    /\ Last(trace).status = "nonzero"
    /\ pc = "done"

\* The message of the error a step of the build returns
ErrorOf(e) ==
    CASE e.kind \in {"config", "discover"} -> e.ret.fmt
      [] e.kind = "hook" /\ ~e.spawned ->
            "No buildscript found. Possible build scripts: {}."
      [] e.spawned /\ e.status = "spawn_error" ->
            "Failed to summon command: {} {}: {}"
      [] e.spawned /\ e.status = "nonzero" ->
            "Aborting at first failed command."
      [] OTHER -> ""

StepFailed(k) ==
    \/ trace[k].kind \in {"config", "discover"} /\ ~trace[k].ret.ok
    \/ trace[k].kind = "hook" /\ ~trace[k].spawned
    \/ trace[k].spawned /\ trace[k].status # "zero"

\* C2 as stated, for a build whose configuration was loaded and whose
\* source discovery did not fail: the build succeeds exactly when every
\* process it invoked was launched and exited zero, and otherwise returns
\* the error of the first failing invocation, which is the last process
\* invoked.
C2_Original ==
    (pc = "done" /\ \A k \in OfKind("config") \cup OfKind("discover") :
                        trace[k].ret.ok) =>
        LET failed == {k \in Steps : trace[k].spawned /\ trace[k].status # "zero"}
        IN /\ result.ok <=> failed = {}
           /\ ~result.ok =>
                /\ failed = {Len(trace)}
                /\ result.fmt = ErrorOf(Last(trace))

\* C2, amended: the build succeeds exactly when the configuration was
\* loaded, source discovery succeeded, every hook run found a script and
\* every process invoked was launched and exited zero; otherwise it returns
\* the error of the first of these steps that failed, which is the last
\* step taken, and a failing invocation is the last process invoked.  A
\* build whose parser panics returns nothing and has invoked no process.
C2_Result ==
    /\ \A k \in Steps : StepFailed(k) => k = Len(trace) /\ pc = "done"
    /\ pc = "panicked" => trace = <<>> /\ result = NoResult
    /\ pc = "done" =>
        /\ result.ok <=> \A k \in Steps : ~StepFailed(k)
        /\ ~result.ok => /\ result.fmt = ErrorOf(Last(trace))
                         /\ result.args = Last(trace).ret.args

\* A build that compiled two files and failed to launch the linker.
C2_Witness ==
    /\ pc = "done"
    /\ Len(CompileEntries) = 2
    /\ Last(trace).kind = "link"
    /\ Last(trace).status = "spawn_error"
    /\ ~result.ok

\* C3: with timing Before the hook is run exactly once and its result is
\* the result of the build; no compile and no link is ever issued.
C3_Before ==
    (Loaded /\ Timing = "Before") =>
        /\ OfKind("compile") = {}
        /\ OfKind("link") = {}
        /\ OfKind("discover") = {}
        /\ Cardinality(OfKind("hook")) = IF pc = "done" THEN 1 ELSE 0
        /\ pc = "done" =>
            /\ Last(trace).kind = "hook"
            /\ result.ok <=> ExitedZero(Len(trace))
            /\ result.fmt = ErrorOf(Last(trace))

\* A release build with timing Before whose hook ran and exited zero.
C3_Witness ==
    /\ Loaded /\ Timing = "Before"
    /\ release
    /\ pc = "done"
    /\ Last(trace).kind = "hook"
    /\ ExitedZero(Len(trace))
    /\ result.ok

\* C4: with timing Repeat every compile that exited zero is followed at
\* once by one hook run, every hook run follows such a compile, nothing
\* follows a failed compile, and a failed hook run ends the build with an
\* error.
C4_Repeat ==
    (Loaded /\ Timing = "Repeat") =>
        /\ \A k \in OfKind("compile") :
            IF ExitedZero(k)
            THEN IF k = Len(trace) THEN pc = "repeat"
                 ELSE trace[k + 1].kind = "hook"
            ELSE k = Len(trace) /\ pc = "done"
        /\ \A k \in OfKind("hook") :
            /\ k > 1
            /\ trace[k - 1].kind = "compile"
            /\ ExitedZero(k - 1)
            /\ ~ExitedZero(k) =>
                /\ k = Len(trace)
                /\ pc = "done"
                /\ ~result.ok

\* A Repeat build of two files that reached the link step.
C4_Witness ==
    /\ Loaded /\ Timing = "Repeat"
    /\ Len(files) = 2
    /\ Len(trace) = 7
    /\ trace[3].kind = "compile" /\ trace[4].kind = "hook"
    /\ trace[5].kind = "compile" /\ trace[6].kind = "hook"
    /\ trace[7].kind = "link"

\* C5: when the timing is not Before the link is issued at most once, after
\* one compile of every discovered file, in order, each exited zero; with
\* After the hook runs once, right after a link that exited zero, and not
\* otherwise; with None the hook never runs.
C5_LinkAndAfter ==
    (Loaded /\ Timing # "Before") =>
        /\ Cardinality(OfKind("link")) <= 1
        /\ \A k \in OfKind("link") :
            /\ Len(CompileEntries) = Len(files)
            /\ \A j \in 1..Len(files) :
                /\ CompileEntries[j].status = "zero"
                /\ CompileEntries[j].args[Len(CompileEntries[j].args) - 2]
                       = files[j]
            /\ \A j \in OfKind("compile") : j < k
        /\ Timing = "After" =>
            /\ \A k \in OfKind("hook") :
                /\ k = Len(trace)
                /\ trace[k - 1].kind = "link"
                /\ ExitedZero(k - 1)
            /\ (pc = "done" /\ \E k \in OfKind("link") : ExitedZero(k)) =>
                    Cardinality(OfKind("hook")) = 1
        /\ Timing = "None" => OfKind("hook") = {}

\* An After build of two files whose link exited zero and whose hook ran.
C5_Witness ==
    /\ Loaded /\ Timing = "After"
    /\ Len(files) = 2
    /\ pc = "done"
    /\ Last(trace).kind = "hook"
    /\ Last(trace).spawned
    /\ trace[Len(trace) - 1].kind = "link"

\* The first candidate, in the order of POSSIBLE_SCRIPTS, that exists
FirstExisting(exists) ==
    LET ks == {k \in 1..Len(POSSIBLE_SCRIPTS) : POSSIBLE_SCRIPTS[k][1] \in exists}
    IN POSSIBLE_SCRIPTS[CHOOSE k \in ks : \A j \in ks : k <= j]

\* C6: the script run_build_script selects is the first of build.sh,
\* build.pl, build.py that exists.
C6_FirstCandidate ==
    \A k \in OfKind("hook") :
        trace[k].exists # {} =>
            /\ trace[k].selected # <<>>
            /\ trace[k].selected[1][1] = FirstExisting(trace[k].exists)[1]

\* C7: the command run_build_script launches is the interpreter bound to
\* the selected script, with the path of the script as its only argument.
C7_InterpreterThenScript ==
    \A k \in OfKind("hook") :
        trace[k].spawned =>
            \E j \in 1..Len(POSSIBLE_SCRIPTS) :
                /\ trace[k].selected = <<POSSIBLE_SCRIPTS[j]>>
                /\ trace[k].program = POSSIBLE_SCRIPTS[j][2]
                /\ trace[k].args = <<POSSIBLE_SCRIPTS[j][1]>>

\* C8: when no candidate exists run_build_script launches nothing and
\* returns an error whose message names build.sh, build.pl and build.py.
C8_NoScript ==
    \A k \in OfKind("hook") :
        trace[k].exists = {} =>
            /\ ~trace[k].spawned
            /\ ~trace[k].ret.ok
            /\ trace[k].ret.fmt
                 = "No buildscript found. Possible build scripts: {}."
            /\ Len(trace[k].ret.args) = 1
            /\ Contains(trace[k].ret.args[1],
                        <<"b", "u", "i", "l", "d", ".", "s", "h">>)
            /\ Contains(trace[k].ret.args[1],
                        <<"b", "u", "i", "l", "d", ".", "p", "l">>)
            /\ Contains(trace[k].ret.args[1],
                        <<"b", "u", "i", "l", "d", ".", "p", "y">>)
            /\ k = Len(trace)
            /\ pc = "done"
            /\ result = trace[k].ret

\* An After build whose hook found no script after a link that exited zero.
C8_Witness ==
    /\ pc = "done"
    /\ Last(trace).kind = "hook"
    /\ Last(trace).exists = {}
    /\ trace[Len(trace) - 1].kind = "link"
    /\ ~result.ok

\* The flags of the configuration: project.flags without the -O3 of a release
ConfiguredFlags ==
    IF release THEN SubSeq(project[1].flags, 1, Len(project[1].flags) - 1)
    ELSE project[1].flags

\* C9 as stated: the arguments of a compile contain -fpic for Shared and do
\* not contain it for Binary and Static.
C9_Original ==
    \A k \in OfKind("compile") :
        (\E a \in DOMAIN trace[k].args : trace[k].args[a] = S_fpic)
            <=> project[1].ptype = "Shared"

\* C9, amended: the arguments of a compile contain -fpic for Shared; for
\* Binary and Static none is added, so -fpic occurs as often as in the
\* configured flags (and once more for Shared).
C9_Fpic ==
    \A k \in OfKind("compile") :
        /\ project[1].ptype = "Shared" =>
                \E a \in DOMAIN trace[k].args : trace[k].args[a] = S_fpic
        /\ Count(trace[k].args, S_fpic)
             = Count(ConfiguredFlags, S_fpic)
                 + (IF project[1].ptype = "Shared" THEN 1 ELSE 0)

\* A Static release build, with no -fpic configured, that compiled a file.
C9_Witness ==
    /\ Loaded /\ project[1].ptype = "Static"
    /\ release
    /\ Count(ConfiguredFlags, S_fpic) = 0
    /\ OfKind("compile") # {}
    /\ Count(Last(CompileEntries).args, S_O3) = 1

\* The object paths, in the order their sources were compiled
CompiledObjects == [j \in 1..Len(CompileEntries) |-> Last(CompileEntries[j].args)]

\* C10: the link invocation is the compiler with the objects then
\* `-o <name>` (Binary), ar with rcs, the objects, `lib<name>.a` (Static),
\* the compiler with the objects then `-shared -o lib<name>.so` (Shared).
C10_LinkInvocation ==
    \A k \in OfKind("link") :
        LET p == project[1]
            l == trace[k] IN
        /\ p.ptype = "Binary" =>
            /\ l.program = p.compiler
            /\ l.args = CompiledObjects \o << <<"-", "o">>, p.name >>
        /\ p.ptype = "Static" =>
            /\ l.program = <<"a", "r">>
            /\ l.args = << <<"r", "c", "s">> >> \o CompiledObjects
                          \o << <<"l", "i", "b">> \o p.name \o <<".", "a">> >>
        /\ p.ptype = "Shared" =>
            /\ l.program = p.compiler
            /\ l.args = CompiledObjects
                          \o << <<"-", "s", "h", "a", "r", "e", "d">>,
                                <<"-", "o">>,
                                <<"l", "i", "b">> \o p.name \o <<".", "s", "o">> >>

\* The static library foo linked from the objects of a.c and b.c.
C10_Witness ==
    /\ Loaded
    /\ Last(trace).kind = "link"
    /\ Last(trace).program = <<"a", "r">>
    /\ Last(trace).args
         = << <<"r", "c", "s">>,
              <<".", "/", "b", "u", "i", "l", "d", "/", "a", ".", "o">>,
              <<".", "/", "b", "u", "i", "l", "d", "/", "b", ".", "o">>,
              <<"l", "i", "b", "f", "o", "o", ".", "a">> >>

(***************************************************************************)
(* The functions build_project relies on, each under a specification of    *)
(* its own: the variables of build_project stay as Init leaves them.       *)
(***************************************************************************)
buildVars == <<release, project, files, idx, objs, trace, result>>

BuildIdle ==
    /\ release = FALSE
    /\ project = <<>>
    /\ files = <<>>
    /\ idx = 1
    /\ objs = <<>>
    /\ trace = <<>>
    /\ result = NoResult

(***************************************************************************)
(* manager.rs: the object path of a source file.                           *)
(***************************************************************************)
MaxPathLen == 6

S_src_dir == <<".", "/", "s", "r", "c", "/">>

\* The characters of the paths under ./src/
PathChars == {"a", "c", ".", "/"}

\* The components of a relative path: the parts between the separators
RECURSIVE Components(_)
Components(s) ==
    IF \A k \in 1..Len(s) : s[k] # "/" THEN <<s>>
    ELSE LET k == CHOOSE j \in 1..Len(s) :
                    s[j] = "/" /\ \A h \in 1..(j - 1) : s[h] # "/"
         IN <<SubSeq(s, 1, k - 1)>> \o Components(Skip(s, k))

\* A path a walk can give: no component is empty, `.` or `..`
IsRelativePath(s) ==
    \A k \in 1..Len(Components(s)) :
        Components(s)[k] \notin {<<>>, <<".">>, <<".", ".">>}

\* The source files build_project can discover: paths under ./src/ that end
\* in `.c`
SourcePaths ==
    {S_src_dir \o b : b \in {t \in SeqsUpTo(PathChars, MaxPathLen) :
                                IsRelativePath(t) /\ EndsWith(t, S_dot_c)}}

InitObject ==
    /\ pc = "object"
    /\ input \in SourcePaths
    /\ output = <<>>
    /\ BuildIdle

\* let built = format!("./build/{}", ..) for one discovered file
BuildObjectPath ==
    /\ pc = "object"
    /\ output' = ObjectPath(input)
    /\ pc' = "object_done"
    /\ UNCHANGED <<input, buildVars>>

NextObject == BuildObjectPath

SpecObject == InitObject /\ [][NextObject]_vars

\* C11: the object path is the source path without the ./src/ prefix, with
\* every separator replaced by `_` and the trailing `.c`, and no other
\* `.c`, replaced by `.o`, under ./build/.
C11_ObjectPath ==
    pc = "object_done" =>
        LET body == SubSeq(input, 7, Len(input))
            flat == [k \in 1..Len(body) |->
                        IF body[k] = "/" THEN "_" ELSE body[k]]
        IN output = <<".", "/", "b", "u", "i", "l", "d", "/">>
                        \o SubSeq(flat, 1, Len(flat) - 2) \o <<".", "o">>

(***************************************************************************)
(* manager.rs: read_dir, the walk of the source tree.  A tree is the set   *)
(* of the paths of its files; the operating system enumerates the entries  *)
(* of a directory in an order of its own.                                  *)
(***************************************************************************)
MaxBuilds == 2

F_da == <<".", "/", "s", "r", "c", "/", "d", "/", "a", ".", "c">>

TreeUniverse == PathUniverse \cup {F_da}
Trees == SUBSET TreeUniverse

\* The name of the first component of s
FirstComponent(s) == Components(s)[1]

\* The names of the entries of the directory dir (a path that ends in `/`)
Entries(dir, tree) ==
    {FirstComponent(Skip(f, Len(dir))) :
        f \in {g \in tree : MatchAt(g, dir, 1) /\ Len(g) > Len(dir)}}

\* entry.path().is_dir()
IsDir(dir, name, tree) ==
    \E f \in tree : MatchAt(f, dir \o name \o S_slash, 1)

\* The orders in which a set can be enumerated
Orders(S) ==
    {o \in [1..Cardinality(S) -> S] :
        \A a, b \in 1..Cardinality(S) : a # b => o[a] # o[b]}

\* The concatenations of one sequence of each set of v, in the order of v
RECURSIVE ConcatChoices(_)
ConcatChoices(v) ==
    IF Len(v) = 0 THEN {<<>>}
    ELSE {h \o t : h \in v[1], t \in ConcatChoices(Tail(v))}

\* The values read_dir(dir) can return: for each entry in the order of the
\* enumeration, the walk of a directory or the path of a file
RECURSIVE ReadDir(_, _)
ReadDir(dir, tree) ==
    UNION {ConcatChoices(
              [k \in 1..Len(o) |->
                  IF IsDir(dir, o[k], tree)
                  THEN ReadDir(dir \o o[k] \o S_slash, tree)
                  ELSE {<<dir \o o[k]>>}]) :
           o \in Orders(Entries(dir, tree))}

InitWalk ==
    /\ pc = "walk"
    /\ input \in Trees
    /\ output = <<>>
    /\ BuildIdle

\* The discovery of one build: read_dir("./src/") filtered on the suffix
DiscoverAgain ==
    /\ pc = "walk"
    /\ \E content \in ReadDir(S_src_dir, input) :
          output' = Append(output, Filter(content, S_dot_c))
    /\ pc' = IF Len(output') = MaxBuilds THEN "walk_done" ELSE "walk"
    /\ UNCHANGED <<input, buildVars>>

NextWalk == DiscoverAgain

SpecWalk == InitWalk /\ [][NextWalk]_vars

\* C12: two builds over the same source tree discover the source files in
\* the same order, whatever the order of the enumerations.
C12_Deterministic ==
    \A a, b \in 1..Len(output) :
        pc \in {"walk", "walk_done"} => output[a] = output[b]

\* The characters of the texts parsed
TextChars == {"(", ")", " ", "\n", "a", "b", E_ACUTE}

Texts == SeqsUpTo(TextChars, MaxTextLen)

InitParse ==
    /\ pc = "parse"
    /\ input \in Texts
    /\ output = <<>>
    /\ BuildIdle

\* parse_string(input)
Parse ==
    /\ pc = "parse"
    /\ output' = ParseString(input)
    /\ pc' = "parsed"
    /\ UNCHANGED <<input, buildVars>>

NextParse == Parse

SpecParse == InitParse /\ [][NextParse]_vars

(***************************************************************************)
(* The properties of the parser.                                           *)
(***************************************************************************)
WhiteSpace == {" ", "\t", "\r", "\n"}

\* The forms left open at the end of the text from position k on, read
\* without building anything: depth is the number of forms open, inToken
\* whether an identifier or a key is being read.
RECURSIVE OpenForms(_, _, _, _)
OpenForms(text, k, depth, inToken) ==
    IF k > Len(text) THEN depth
    ELSE LET c == text[k] IN
         IF inToken /\ c \notin WhiteSpace \cup {")"}
         THEN OpenForms(text, k + 1, depth, TRUE)
         ELSE IF c \in WhiteSpace THEN OpenForms(text, k + 1, depth, FALSE)
         ELSE IF c = ")" /\ depth > 0
         THEN OpenForms(text, k + 1, depth - 1, FALSE)
         ELSE IF c = "("
         THEN OpenForms(text, k + 1, depth + 1, TRUE)
         ELSE OpenForms(text, k + 1, depth, TRUE)

\* The end of the text is reached inside a form that is not closed
Unclosed(text) == OpenForms(text, 1, 0, FALSE) > 0

\* C13: parse returns a list of values or the error of the missing `)`,
\* the error exactly when the text ends inside an open form, and it ends
\* in no other way, whatever the characters of the text.
C13_OnlySyntaxError ==
    pc = "parsed" =>
        /\ output.kind \in {"ok", "err"}
        /\ output.kind = "err" <=> Unclosed(input)
        /\ output.kind = "err" =>
              output.err.fmt = "line {}: Expected ), found EOF."

\* C14: the error of an unterminated form carries the line 1 + the number
\* of newlines of the text, all of them consumed when the end is reached.
C14_ErrorLine ==
    (pc = "parsed" /\ output.kind = "err") =>
        /\ output.line = 1 + Count(input, "\n")
        /\ output.err.args = <<Decimal(1 + Count(input, "\n"))>>

\* An unterminated form reported at line 3.
C14_Witness ==
    /\ pc = "parsed"
    /\ output.kind = "err"
    /\ input[1] = "("
    /\ Count(input, "\n") = 2
    /\ output.err.args = << <<"3">> >>

\* No identifier and no key of the values has a character of `bad`
RECURSIVE CleanValues(_, _)
CleanValues(values, bad) ==
    \A k \in 1..Len(values) :
        /\ \A j \in 1..Len(values[k].text) : values[k].text[j] \notin bad
        /\ CleanValues(values[k].body, bad)

\* C16: no identifier and no key of a tree parse returns contains a space,
\* a tab, a carriage return, a newline or `)`.
C16_NoDelimiterInside ==
    (pc = "parsed" /\ output.kind = "ok") =>
        CleanValues(output.out, {" ", "\t", "\r", "\n", ")"})

\* The notation of a list of values: each value after a space
RECURSIVE SerializeBody(_)
\* The notation of a value
RECURSIVE SerializeValue(_)
SerializeValue(v) ==
    IF v.tag = "Pair" THEN <<"(">> \o v.text \o SerializeBody(v.body) \o <<")">>
    ELSE v.text

SerializeBody(values) ==
    IF Len(values) = 0 THEN <<>>
    ELSE <<" ">> \o SerializeValue(values[1]) \o SerializeBody(Tail(values))

\* The notation of a tree: the top-level values separated by spaces
Serialize(values) ==
    IF Len(values) = 0 THEN <<>> ELSE Tail(SerializeBody(values))

\* C17: the tree of a text parse accepts, written back to the notation and
\* parsed again, is the same tree.
C17_RoundTrip ==
    (pc = "parsed" /\ output.kind = "ok") =>
        LET again == ParseString(Serialize(output.out)) IN
        /\ again.kind = "ok"
        /\ again.out = output.out

\* A keyed form with a body parsed from a text that is not its notation.
C17_Witness ==
    /\ pc = "parsed"
    /\ output.kind = "ok"
    /\ output.out = <<Pair(<<"a">>, <<Ident(<<"b">>)>>)>>
    /\ Serialize(output.out) # input

(***************************************************************************)
(* Texts made of well-formed keyed forms: a list of keyed forms written in *)
(* the notation, with a run of white space between two elements.           *)
(***************************************************************************)
MaxForms == 2

\* The keys and the elements of the bodies of the forms written
FormKeys == {<<"a">>, <<"k", "e", "y">>}
BodyElems ==
    {Ident(<<"a">>), Ident(<<"b", E_ACUTE>>), Pair(<<"b">>, <<Ident(<<"a">>)>>)}
KeyedForms ==
    {Pair(k, body) : k \in FormKeys, body \in SeqsUpTo(BodyElems, MaxForms)}
Separators == {<<" ">>, <<"\n">>, <<"\t", "\r">>}

\* The notation of a value and of the elements of a body, each element
\* after the separator
RECURSIVE RenderBody(_, _)
RECURSIVE RenderValue(_, _)
RenderValue(v, sep) ==
    IF v.tag = "Pair"
    THEN <<"(">> \o v.text \o RenderBody(v.body, sep) \o <<")">>
    ELSE v.text

RenderBody(values, sep) ==
    IF Len(values) = 0 THEN <<>>
    ELSE sep \o RenderValue(values[1], sep) \o RenderBody(Tail(values), sep)

\* The text of a list of forms: the forms separated by the separator
Render(forms, sep) ==
    IF Len(forms) = 0 THEN <<>>
    ELSE Skip(RenderBody(forms, sep), Len(sep))

InitForms ==
    /\ pc = "forms"
    /\ input \in [forms : SeqsUpTo(KeyedForms, MaxForms), sep : Separators]
    /\ output = <<>>
    /\ BuildIdle

\* parse_string on the text of the forms
ParseForms ==
    /\ pc = "forms"
    /\ output' = ParseString(Render(input.forms, input.sep))
    /\ pc' = "forms_parsed"
    /\ UNCHANGED <<input, buildVars>>

NextForms == ParseForms

SpecForms == InitForms /\ [][NextForms]_vars

\* C15: the text of a list of well-formed keyed forms parses to exactly
\* these forms, in order, each with its key and its body in order, and with
\* no None for the white space, at top level or in a body.
C15_KeyedForms ==
    pc = "forms_parsed" =>
        /\ output.kind = "ok"
        /\ output.out = input.forms

\* The top-level values of the configurations built
ValUniverse ==
    {Pair(K_name, <<Ident(S_foo)>>),
     Pair(K_name, <<Ident(<<"b", "a", "r">>)>>),
     Pair(K_name, <<>>),
     Pair(K_name, <<Ident(S_foo), Ident(<<"b", "a", "r">>)>>),
     Pair(K_name, <<Pair(<<"x">>, <<>>)>>),
     Pair(<<"n", "a", "m", "e", "s">>, <<Ident(<<"b", "a", "r">>)>>),
     Ident(K_name),
     Pair(<<"x">>, <<Pair(K_name, <<Ident(<<"b", "a", "r">>)>>),
                     Pair(K_version, <<Ident(S_version)>>)>>),
     Pair(K_version, <<Ident(S_version)>>),
     Pair(K_version, <<Ident(<<"2">>)>>),
     Pair(K_version, <<>>),
     Pair(K_version, <<Ident(S_version), Ident(S_foo)>>),
     Pair(K_type, <<Ident(S_shared_type)>>),
     Pair(K_type, <<Ident(<<"b", "o", "g", "u", "s">>)>>)}

LookupKeys == {K_name, K_version, K_type, <<"x">>}

InitConfig ==
    /\ pc = "config"
    /\ input \in SeqsUpTo(ValUniverse, MaxVals)
    /\ output = <<>>
    /\ BuildIdle

\* find_val(&input, key)
Lookup ==
    /\ pc = "config"
    /\ \E key \in LookupKeys :
          output' = [key |-> key, value |-> FindVal(input, key)]
    /\ pc' = "found"
    /\ UNCHANGED <<input, buildVars>>

\* Project::from_config(input)
BuildModel ==
    /\ pc = "config"
    /\ output' = FromConfig(input)
    /\ pc' = "built"
    /\ UNCHANGED <<input, buildVars>>

NextConfig ==
    \/ Lookup
    \/ BuildModel

SpecConfig == InitConfig /\ [][NextConfig]_vars

(***************************************************************************)
(* Properties of find_val and of the required keys.                        *)
(***************************************************************************)
TopLevelAt(vals, key) ==
    {k \in 1..Len(vals) : vals[k].tag = "Pair" /\ vals[k].text = key}

\* The body of the first top-level form with the key, in document order
FirstBody(vals, key) ==
    IF TopLevelAt(vals, key) = {} THEN <<>>
    ELSE LET first == CHOOSE k \in TopLevelAt(vals, key) :
                         \A j \in TopLevelAt(vals, key) : k <= j
         IN <<vals[first].body>>

\* The configuration without the forms shadowed by an earlier form of the
\* same key
Shadowless(vals) ==
    SelectSeq([k \in 1..Len(vals) |-> [at |-> k, v |-> vals[k]]],
              LAMBDA e : \/ e.v.tag # "Pair"
                         \/ \A j \in TopLevelAt(vals, e.v.text) : e.at <= j)

Unboxed(entries) == [k \in 1..Len(entries) |-> entries[k].v]

\* C18: find_val returns the body of the first top-level form whose key is
\* exactly the key asked for, and nothing when there is none; later forms of
\* the same key and nested forms do not count, and from_config gives the
\* result it gives on the configuration without the shadowed duplicates.
C18_FirstTopLevel ==
    /\ pc = "found" => output.value = FirstBody(input, output.key)
    /\ pc = "built" => output = FromConfig(Unboxed(Shadowless(input)))

C18_Witness ==
    /\ pc = "found"
    /\ output.key = K_name
    /\ \E i, j \in TopLevelAt(input, K_name) :
          i < j /\ input[i].body # input[j].body
    /\ output.value = <<input[1].body>>
    /\ \E k \in 1..Len(input) :
          /\ input[k].tag = "Pair"
          /\ \E n \in 1..Len(input[k].body) :
                input[k].body[n].tag = "Pair" /\ input[k].body[n].text = K_name

\* The body the key resolves to is exactly one Identifier
SingleIdent(vals, key) ==
    /\ FirstBody(vals, key) # <<>>
    /\ Len(FirstBody(vals, key)[1]) = 1
    /\ FirstBody(vals, key)[1][1].tag = "Ident"

Names(ret, key) ==
    ret = Err("Key {} must be a single string.", <<key>>)

\* C19 as stated: whenever name, respectively version, is absent or not a
\* single Identifier, from_config fails with the error naming that key, and
\* otherwise the key is taken from the Identifier's text.
C19_Original ==
    pc = "built" =>
        /\ ~SingleIdent(input, K_name) => Names(output.ret, K_name)
        /\ ~SingleIdent(input, K_version) => Names(output.ret, K_version)
        /\ SingleIdent(input, K_name) => ~Names(output.ret, K_name)
        /\ SingleIdent(input, K_version) => ~Names(output.ret, K_version)
        /\ output.ret = Ok =>
              /\ output.project[1].name = FirstBody(input, K_name)[1][1].text
              /\ output.project[1].version
                    = FirstBody(input, K_version)[1][1].text

\* C19: the keys are validated in the order name, version, and the error
\* names the first of them that is absent or not a single Identifier; a key
\* that is a single Identifier is never named, and its text is the value.
C19_Required ==
    pc = "built" =>
        /\ ~SingleIdent(input, K_name) => Names(output.ret, K_name)
        /\ SingleIdent(input, K_name) /\ ~SingleIdent(input, K_version)
              => Names(output.ret, K_version)
        /\ SingleIdent(input, K_name) => ~Names(output.ret, K_name)
        /\ SingleIdent(input, K_version) => ~Names(output.ret, K_version)
        /\ output.ret = Ok =>
              /\ output.project[1].name = FirstBody(input, K_name)[1][1].text
              /\ output.project[1].version
                    = FirstBody(input, K_version)[1][1].text

C19_Witness ==
    /\ pc = "built"
    /\ SingleIdent(input, K_name)
    /\ FirstBody(input, K_version) # <<>>
    /\ Len(FirstBody(input, K_version)[1]) = 2
    /\ Names(output.ret, K_version)

(***************************************************************************)
(* The standard key: a configuration with a good name and version and a    *)
(* standard form at any place, built and then rendered as the compile step *)
(* renders it.                                                             *)
(***************************************************************************)
StdPrefixes ==
    {<<>>, <<"c">>, <<"g", "n", "u">>, <<"C">>, <<"g", "n">>,
     <<"g", "n", "u", "c">>, <<"a", "n", "s", "i">>}

StdSuffixes ==
    {<<>>, <<"8", "9">>, <<"9", "9">>, <<"1", "1">>, <<"1", "7">>,
     <<"2", "3">>, <<"2", "x">>, <<"9", "0">>, <<"1", "8">>,
     <<"0", "8", "9">>}

StandardTokens == {p \o y : p \in StdPrefixes, y \in StdSuffixes} \ {<<>>}

StandardForms ==
    {Pair(K_standard, <<Ident(t)>>) : t \in StandardTokens}
        \cup {Pair(K_standard, <<>>),
              Pair(K_standard, <<Ident(<<"c", "9", "9">>),
                                 Ident(<<"c", "1", "1">>)>>),
              Pair(K_standard, <<Pair(<<"c", "9", "9">>, <<>>)>>)}

RequiredForms ==
    <<Pair(K_name, <<Ident(S_foo)>>), Pair(K_version, <<Ident(S_version)>>)>>

InsertAt(seq, k, e) == SubSeq(seq, 1, k) \o <<e>> \o SubSeq(seq, k + 1, Len(seq))

InitStandard ==
    /\ pc = "config"
    /\ input \in {RequiredForms}
          \cup {InsertAt(RequiredForms, k, f) :
                   k \in 0..Len(RequiredForms), f \in StandardForms}
    /\ output = <<>>
    /\ BuildIdle

\* format!("-std={}", project.standard) of the compile step
RenderStandard ==
    /\ pc = "built"
    /\ output.ret = Ok
    /\ output' = [ret |-> output.ret,
                  project |-> output.project,
                  flag |-> S_std \o StandardFmt(output.project[1].standard)]
    /\ pc' = "rendered"
    /\ UNCHANGED <<input, buildVars>>

NextStandard ==
    \/ BuildModel
    \/ RenderStandard

SpecStandard == InitStandard /\ [][NextStandard]_vars

StdYears ==
    {<<"8", "9">>, <<"9", "9">>, <<"1", "1">>, <<"1", "7">>, <<"2", "3">>}

GnuTokens == {<<"g", "n", "u">> \o y : y \in StdYears}

ValidTokens ==
    {<<"a", "n", "s", "i">>} \cup {<<"c">> \o y : y \in StdYears}
        \cup GnuTokens

Rendered(t) ==
    IF t = <<"a", "n", "s", "i">> THEN <<"c", "8", "9">>
    ELSE IF t = <<"c", "2", "3">> THEN <<"c", "2", "x">>
    ELSE IF t = <<"g", "n", "u", "2", "3">> THEN <<"g", "n", "u", "2", "x">>
    ELSE t

\* C20: the standard key is accepted exactly for ansi and c or gnu followed
\* by 89, 99, 11, 17 or 23; the GNU flag is set iff the prefix is gnu; the
\* -std= token is c89 for ansi, c2x and gnu2x for c23 and gnu23, the token
\* itself otherwise, and c99 when the key is absent.
C20_Standard ==
    pc \in {"built", "rendered"} =>
        LET body == FirstBody(input, K_standard) IN
        /\ body = <<>> =>
              /\ output.ret = Ok
              /\ pc = "rendered"
                    => output.flag = <<"-", "s", "t", "d", "=", "c", "9", "9">>
        /\ body # <<>> /\ ~SingleIdent(input, K_standard) => output.ret # Ok
        /\ SingleIdent(input, K_standard) =>
              /\ output.ret = Ok <=> body[1][1].text \in ValidTokens
              /\ output.ret = Ok =>
                    (output.project[1].standard.gnu_extensions
                        <=> body[1][1].text \in GnuTokens)
              /\ pc = "rendered" =>
                    output.flag = <<"-", "s", "t", "d", "=">>
                                     \o Rendered(body[1][1].text)

C20_Witness ==
    /\ pc = "rendered"
    /\ FirstBody(input, K_standard)
          = <<(<<Ident(<<"g", "n", "u", "2", "3">>)>>)>>
    /\ output.project[1].standard.gnu_extensions
    /\ output.flag
          = <<"-", "s", "t", "d", "=", "g", "n", "u", "2", "x">>

(***************************************************************************)
(* The flags key: a configuration with a good name and version and a flags *)
(* form at any place.                                                      *)
(***************************************************************************)
MaxFlagElems == 3

FlagElems ==
    {Ident(<<"-", "a">>), Ident(<<"-", "g">>), Ident(DEFAULT_FLAGS[1]),
     Pair(<<"-", "a">>, <<>>)}

FlagForms == {Pair(K_flags, body) : body \in SeqsUpTo(FlagElems, MaxFlagElems)}

InitFlags ==
    /\ pc = "config"
    /\ input \in {RequiredForms}
          \cup {InsertAt(RequiredForms, k, f) :
                   k \in 0..Len(RequiredForms), f \in FlagForms}
    /\ output = <<>>
    /\ BuildIdle

NextFlags == BuildModel

SpecFlags == InitFlags /\ [][NextFlags]_vars

\* C21: a flags key whose elements are all Identifiers gives exactly those
\* Identifiers, in order, duplicates kept and no default added; a nested
\* form among them makes from_config fail; without the key the flags are
\* the four defaults in their order.
C21_Flags ==
    pc = "built" =>
        LET body == FirstBody(input, K_flags) IN
        /\ body = <<>> =>
              /\ output.ret = Ok
              /\ Len(output.project[1].flags) = 4
              /\ output.project[1].flags[1] = <<"-", "W", "a", "l", "l">>
              /\ output.project[1].flags[2]
                    = <<"-", "W", "e", "x", "t", "r", "a">>
              /\ output.project[1].flags = DEFAULT_FLAGS
        /\ body # <<>> =>
              IF \A k \in 1..Len(body[1]) : body[1][k].tag = "Ident"
              THEN /\ output.ret = Ok
                   /\ Len(output.project[1].flags) = Len(body[1])
                   /\ \A k \in 1..Len(body[1]) :
                         output.project[1].flags[k] = body[1][k].text
              ELSE output.ret # Ok

\* A flag given twice, next to a default given by hand
C21_Witness ==
    /\ pc = "built"
    /\ FirstBody(input, K_flags)
          = <<(<<Ident(<<"-", "a">>), Ident(<<"-", "a">>),
                 Ident(<<"-", "W", "a", "l", "l">>)>>)>>
    /\ output.ret = Ok
    /\ output.project[1].flags
          = << <<"-", "a">>, <<"-", "a">>, <<"-", "W", "a", "l", "l">> >>

TimingTokens ==
    {S_before, S_repeat, S_after, <<"B", "e", "f", "o", "r", "e">>,
     <<"n", "o", "n", "e">>, <<"b", "e", "f", "o", "r">>,
     <<"a", "f", "t", "e", "r", "r">>, <<"r", "e">>, <<"x">>,
     <<"A", "F", "T", "E", "R">>}

TimingForms ==
    {Pair(K_buildscript, <<Ident(t)>>) : t \in TimingTokens}
        \cup {Pair(K_buildscript, <<>>),
              Pair(K_buildscript, <<Ident(S_before), Ident(S_after)>>),
              Pair(K_buildscript, <<Pair(S_before, <<>>)>>)}

\* The other keys a configuration with a timing may carry
OtherForms ==
    {<<>>, <<Pair(K_type, <<Ident(S_shared_type)>>)>>,
     <<Pair(K_cc, <<Ident(<<"g", "c", "c">>)>>)>>,
     <<Pair(K_flags, <<Ident(<<"-", "g">>)>>)>>}

InitTiming ==
    /\ pc = "config"
    /\ input \in {RequiredForms \o o : o \in OtherForms}
          \cup {InsertAt(RequiredForms, k, f) \o o :
                   k \in 0..Len(RequiredForms), f \in TimingForms,
                   o \in OtherForms}
    /\ output = <<>>
    /\ BuildIdle

\* Project::from_config(input), with the timing
BuildTimedModel ==
    /\ pc = "config"
    /\ output' = FromConfigWithScript(input)
    /\ pc' = "timed"
    /\ UNCHANGED <<input, buildVars>>

NextTiming == BuildTimedModel

SpecTiming == InitTiming /\ [][NextTiming]_vars

\* C22: without the timing key the timing is None; with the token before,
\* repeat or after it is Before, Repeat or After; with any other token
\* from_config fails.
C22_Timing ==
    pc = "timed" =>
        LET body == FirstBody(input, K_buildscript) IN
        /\ body = <<>> =>
              output.ret = Ok /\ output.project[1].build_script = "None"
        /\ SingleIdent(input, K_buildscript) =>
              LET t == body[1][1].text IN
              /\ t = <<"b", "e", "f", "o", "r", "e">> =>
                    output.ret = Ok /\ output.project[1].build_script = "Before"
              /\ t = <<"r", "e", "p", "e", "a", "t">> =>
                    output.ret = Ok /\ output.project[1].build_script = "Repeat"
              /\ t = <<"a", "f", "t", "e", "r">> =>
                    output.ret = Ok /\ output.project[1].build_script = "After"
              /\ t \notin {<<"b", "e", "f", "o", "r", "e">>,
                           <<"r", "e", "p", "e", "a", "t">>,
                           <<"a", "f", "t", "e", "r">>} => output.ret # Ok

C22_Witness ==
    /\ pc = "timed"
    /\ input[1] = Pair(K_buildscript, <<Ident(<<"r", "e", "p", "e", "a", "t">>)>>)
    /\ Len(input) = 4
    /\ output.ret = Ok
    /\ output.project[1].build_script = "Repeat"
    /\ output.project[1].ptype = "Shared"

(***************************************************************************)
(* build_project called again over the same configuration and sources:     *)
(* the builds whose commands all exit with zero and that run no build      *)
(* script.  input is what the ketchfile and the source root give to every  *)
(* build, output the compile invocations of the builds that returned.      *)
(***************************************************************************)
RebuildProjects ==
    [name : {S_foo},
     version : {S_version},
     standard : {DEFAULT_STANDARD, [std |-> 23, gnu_extensions |-> TRUE]},
     compiler : {DEFAULT_COMPILER},
     flags : {DEFAULT_FLAGS} \cup SeqsUpTo({S_g, S_O3}, MaxFlags),
     ptype : ProjectType,
     build_script : {"None"}]

InitRebuild ==
    /\ pc = "rebuild"
    /\ input \in [project : RebuildProjects,
                  files : {<<>>, <<F_a>>, <<F_a, F_db>>}]
    /\ output = <<>>
    /\ BuildIdle

\* let mut project = Project::from_config(..)?; the push of -O3; the files
LoadAgain ==
    /\ pc = "rebuild"
    /\ Len(output) < MaxBuilds
    /\ \E r \in BOOLEAN :
          /\ release' = r
          /\ project' = IF r
                        THEN <<[input.project EXCEPT !.flags = Append(@, S_O3)]>>
                        ELSE <<input.project>>
    /\ files' = input.files
    /\ idx' = 1
    /\ objs' = <<>>
    /\ trace' = <<>>
    /\ pc' = IF Len(input.files) = 0 THEN "returning" ELSE "compile_again"
    /\ UNCHANGED <<result, input, output>>

\* One iteration of `for file in files` whose command exits with zero
CompileAgain ==
    /\ pc = "compile_again"
    /\ objs' = Append(objs, ObjectPath(files[idx]))
    /\ trace' = Append(trace,
                       Invocation("compile", project[1].compiler,
                                  CompileFlags(project[1], files[idx]), "zero"))
    /\ idx' = idx + 1
    /\ pc' = IF idx = Len(files) THEN "returning" ELSE "compile_again"
    /\ UNCHANGED <<release, project, files, result, input, output>>

\* The return of build_project: its locals are dropped
ReturnAgain ==
    /\ pc = "returning"
    /\ output' = Append(output, [release |-> release, compiles |-> trace])
    /\ project' = <<>>
    /\ files' = <<>>
    /\ idx' = 1
    /\ objs' = <<>>
    /\ trace' = <<>>
    /\ pc' = "rebuild"
    /\ UNCHANGED <<release, result, input>>

NextRebuild ==
    \/ LoadAgain
    \/ CompileAgain
    \/ ReturnAgain

SpecRebuild == InitRebuild /\ [][NextRebuild]_vars

\* The arguments the claim gives for the k-th source of a build
ExpectedCompile(r, k) ==
    input.project.flags
        \o (IF r THEN << <<"-", "O", "3">> >> ELSE <<>>)
        \o (IF input.project.ptype = "Shared"
            THEN << <<"-", "f", "p", "i", "c">> >> ELSE <<>>)
        \o << <<"-", "s", "t", "d", "=">>
                 \o (IF input.project.standard.std = 23
                     THEN <<"g", "n", "u", "2", "x">> ELSE <<"c", "9", "9">>) >>
        \o << <<"-", "c">>, input.files[k], <<"-", "o">>,
              ObjectPath(input.files[k]) >>

ArgsInOrder ==
    \A b \in 1..Len(output) :
        /\ Len(output[b].compiles) = Len(input.files)
        /\ \A k \in 1..Len(output[b].compiles) :
              output[b].compiles[k].args = ExpectedCompile(output[b].release, k)

\* C23 as stated: the arguments of every compile are the configured flags,
\* -O3 iff release, -fpic for Shared, the dialect, -c source -o object, and
\* a non-release build after a release build has no -O3 in any compile.
C23_Original ==
    /\ ArgsInOrder
    /\ \A a, b \in 1..Len(output) :
          (a < b /\ output[a].release /\ ~output[b].release) =>
              \A k \in 1..Len(output[b].compiles) :
                  Count(output[b].compiles[k].args, S_O3) = 0

\* C23, amended: the same order of the arguments, and a non-release build
\* after a release build has no -O3 but those of the configured flags.
C23_CompileArgs ==
    /\ ArgsInOrder
    /\ \A a, b \in 1..Len(output) :
          (a < b /\ output[a].release /\ ~output[b].release) =>
              \A k \in 1..Len(output[b].compiles) :
                  Count(output[b].compiles[k].args, S_O3)
                      = Count(input.project.flags, S_O3)

\* A Shared release build and then a non-release build of two files
C23_Witness ==
    /\ pc = "rebuild"
    /\ Len(output) = 2
    /\ input.project.ptype = "Shared"
    /\ Count(input.project.flags, S_O3) = 0
    /\ output[1].release /\ ~output[2].release
    /\ Len(output[2].compiles) = 2
    /\ Count(output[1].compiles[2].args, S_O3) = 1
    /\ Count(output[2].compiles[2].args, S_O3) = 0

(***************************************************************************)
(* The objects of one build: the sources discovered under the source root  *)
(* and the object path each is compiled to.                                *)
(***************************************************************************)
SourceTreeUniverse ==
    {S_src_dir \o <<"a", "/", "b", ".", "c">>,
     S_src_dir \o <<"a", "_", "b", ".", "c">>,
     S_src_dir \o <<"a", "/", "a", ".", "c">>,
     S_src_dir \o <<"a", ".", "c">>,
     S_src_dir \o <<"b", ".", "c">>,
     S_src_dir \o <<"a", "_", "b", ".", "h">>,
     S_src_dir \o <<"b", "/", "a", "/", "b", ".", "c">>}

InitObjects ==
    /\ pc = "tree"
    /\ input \in SUBSET SourceTreeUniverse
    /\ output = <<>>
    /\ BuildIdle

\* The files of read_dir("./src/") that end in `.c` and, in the order of
\* the loop, objs.push(built)
MapObjects ==
    /\ pc = "tree"
    /\ \E content \in ReadDir(S_src_dir, input) :
          LET found == Filter(content, S_dot_c) IN
          output' = [files |-> found,
                     objs |-> [k \in 1..Len(found) |-> ObjectPath(found[k])]]
    /\ pc' = "mapped"
    /\ UNCHANGED <<input, buildVars>>

NextObjects == MapObjects

SpecObjects == InitObjects /\ [][NextObjects]_vars

\* C24: two distinct sources discovered in one build never have the same
\* object path, so the list of objects has no repeated path.
C24_Injective ==
    pc = "mapped" =>
        \A i, j \in 1..Len(output.files) :
            output.files[i] # output.files[j]
                => output.objs[i] # output.objs[j]

(***************************************************************************)
(* build_project over a source root without a `.c` file.                    *)
(***************************************************************************)
\* The discovery succeeded and kept no file
NothingToCompile ==
    /\ Loaded /\ Timing # "Before"
    /\ \E k \in OfKind("discover") : trace[k].ret.ok
    /\ Len(files) = 0

\* C25: when the discovery finds no `.c` file and the timing is not Before,
\* no compile and no Repeat hook is issued, exactly one link is issued, with
\* no object in its arguments, and the result of the build is the result of
\* the link, or of the After hook that follows a link that exited zero.
C25_EmptyBuild ==
    NothingToCompile =>
        /\ OfKind("compile") = {}
        /\ Timing # "After" => OfKind("hook") = {}
        /\ \A k \in OfKind("hook") :
              k = Len(trace) /\ trace[k - 1].kind = "link" /\ ExitedZero(k - 1)
        /\ Cardinality(OfKind("link")) <= 1
        /\ pc \in {"after", "done"} => Cardinality(OfKind("link")) = 1
        /\ \A k \in OfKind("link") :
              trace[k].args
                 = CASE project[1].ptype = "Binary" ->
                           << <<"-", "o">>, project[1].name >>
                     [] project[1].ptype = "Static" ->
                           << <<"r", "c", "s">>,
                              <<"l", "i", "b">> \o project[1].name
                                  \o <<".", "a">> >>
                     [] project[1].ptype = "Shared" ->
                           << <<"-", "s", "h", "a", "r", "e", "d">>,
                              <<"-", "o">>,
                              <<"l", "i", "b">> \o project[1].name
                                  \o <<".", "s", "o">> >>
        /\ pc = "done" =>
              LET k == CHOOSE j \in OfKind("link") : TRUE IN
              IF ExitedZero(k) /\ Timing = "After"
              THEN /\ Cardinality(OfKind("hook")) = 1
                   /\ result = Last(trace).ret
              ELSE /\ OfKind("hook") = {}
                   /\ k = Len(trace)
                   /\ result = trace[k].ret

\* A Binary build with timing After over a root without sources: the link
\* of nothing, then the hook
C25_Witness ==
    /\ NothingToCompile
    /\ pc = "done"
    /\ project[1].ptype = "Binary"
    /\ Timing = "After"
    /\ Len(trace) = 4
    /\ trace[3].kind = "link"
    /\ trace[3].args = << <<"-", "o">>, <<"f", "o", "o">> >>
    /\ trace[4].kind = "hook"
    /\ result = trace[4].ret

====
